---- MODULE Spec2Model ----
(***************************************************************************)
(* k-medoids clustering of src/routes/+page.svelte.                        *)
(*                                                                         *)
(* A Point is a JavaScript object: it has an identity and coordinates.     *)
(* Points are modelled by identifiers 1, 2, 3, ... in order of creation;   *)
(* coords[id] holds the coordinates of the object.  The Map `clusters` is  *)
(* keyed by object identity and keeps insertion order, so it is a sequence *)
(* of entries [key, points] with pairwise different keys.                  *)
(***************************************************************************)
EXTENDS Integers, Sequences, FiniteSets, TLC

\* ---- BOUNDS of the program, scaled down to a grid that can be enumerated:
\* centers in [MinX, MaxX] x [MinY, MaxY], points within ClusterSpread of
\* their center, 1 .. MaxDatasetSize points beside the center ----
MinX == 0
MaxX == 0
MinY == 0
MaxY == 0
ClusterSpread == 1
MaxDatasetSize == 1
\* ---- bounds of the model: the largest number of points the pool may reach,
\* the largest requested k, the largest number of calls of initializeMedioids
\* in one behaviour ----
MaxPoints == 4
MaxK == 3
MaxRuns == 1

\* null
Null == 0
\* stepS when no clusterOneIteration of the run has selected candidates yet
NoS == <<>>

VARIABLES
    coords,       \* coords[id] = <<x, y>> of the Point object id
    datasets,     \* data.datasets: sequence of the datasets' data arrays
    medioids,     \* medioids: sequence of Points
    clusters,     \* clusters: Map<Point, Point[]> in insertion order
    numMedioids,  \* numMedioids (bound to the number input) as read by the
                  \* last initializeMedioids
    runs,         \* number of calls of initializeMedioids so far
    run,          \* "none": no medioids seeded yet; "open": seeded and the
                  \* pool is the one that was seeded; "stale": a dataset was
                  \* added since the seeding
    pc,           \* "idle", or "loop" inside the while of clusterTillEnd
    lastOp,       \* the function that ran last: "none", "add", "seed", "step",
                  \* "assign"
    ret,          \* return value of the last clusterOneIteration
    alerted,      \* the last operation raised alert(...)
    passed,       \* the last operation ran clusterAll past its early returns
    stepS,        \* <<S>>, S the sum of the selected candidates' total
                  \* distances in the last clusterOneIteration since the
                  \* pool or the seeding changed; NoS if there is none
    before        \* medioids before the last clusterOneIteration

vars == <<coords, datasets, medioids, clusters, numMedioids, runs, run, pc,
          lastOp, ret, alerted, passed, stepS, before>>

\* ---- utilities ----
\* the element of a one-element set (used to evaluate an intermediate result
\* once, before it is used)
TheOne(S) == CHOOSE x \in S : TRUE

Abs(n) == IF n < 0 THEN -n ELSE n

MathMin(a, b) == IF a < b THEN a ELSE b

\* randomInt(min, max): the values Math.floor(Math.random()*(max-min+1)+min)
\* can take
randomInt(min, max) == min .. max

Digit(d) == CASE d = 0 -> "0" [] d = 1 -> "1" [] d = 2 -> "2" [] d = 3 -> "3"
              [] d = 4 -> "4" [] d = 5 -> "5" [] d = 6 -> "6" [] d = 7 -> "7"
              [] d = 8 -> "8" [] d = 9 -> "9"

RECURSIVE NatToString(_)
NatToString(n) ==
    IF n < 10 THEN <<Digit(n)>>
    ELSE NatToString(n \div 10) \o <<Digit(n % 10)>>

\* Number -> string as a template literal prints an integer
NumberToString(n) == IF n < 0 THEN <<"-">> \o NatToString(-n) ELSE NatToString(n)

\* pointToString(p) = `${p.x},${p.y}`, a sequence of characters
pointToString(p) ==
    NumberToString(coords[p][1]) \o <<",">> \o NumberToString(coords[p][2])

\* ---- distance calculations ----
calculateDistance(p1, p2) ==
    Abs(coords[p1][1] - coords[p2][1]) + Abs(coords[p1][2] - coords[p2][2])

\* points.reduce((sum, other) => sum + calculateDistance(point, other), 0)
RECURSIVE TotalDistance(_, _)
TotalDistance(point, points) ==
    IF points = <<>> THEN 0
    ELSE TheOne({calculateDistance(point, other) + TotalDistance(point, rest) :
                    other \in {Head(points)}, rest \in {Tail(points)}})

\* InsertByTd that puts e before the elements of equal td: a sort that is not
\* stable
RECURSIVE InsertByTdBeforeEqual(_, _)
InsertByTdBeforeEqual(e, s) ==
    IF s = <<>> THEN <<e>>
    ELSE IF e.td <= Head(s).td THEN <<e>> \o s
    ELSE TheOne({<<Head(s)>> \o InsertByTdBeforeEqual(e, rest) : rest \in {Tail(s)}})

\* Array.prototype.sort((a, b) => a.td - b.td) is a stable sort
RECURSIVE InsertByTd(_, _)
InsertByTd(e, s) ==
    IF s = <<>> THEN <<e>>
    ELSE IF e.td < Head(s).td THEN <<e>> \o s
    ELSE TheOne({<<Head(s)>> \o InsertByTd(e, rest) : rest \in {Tail(s)}})

RECURSIVE SortByTd(_)
SortByTd(s) ==
    IF s = <<>> THEN <<>>
    ELSE TheOne({InsertByTd(last, SortByTd(front)) :
                    last \in {s[Len(s)]},
                    front \in {SubSeq(s, 1, Len(s) - 1)}})

calculateAllDistances(points) ==
    IF Len(points) = 0 THEN <<>>
    ELSE TheOne({SortByTd(mapped) :
                    mapped \in {[i \in 1 .. Len(points) |->
                        TheOne({[p |-> point, td |-> TotalDistance(point, points)] :
                                   point \in {points[i]}})]}})

\* ---- medioid functions ----
\* NearestReduce with distance <= calculateDistance(point, nearest)
RECURSIVE NearestReduceLastWins(_, _, _)
NearestReduceLastWins(point, medioidList, nearest) ==
    IF medioidList = <<>> THEN nearest
    ELSE TheOne({NearestReduceLastWins(point, rest, next) :
                next \in {TheOne({IF nearest = Null
                                     \/ distance <= calculateDistance(point, nearest)
                                  THEN medioid ELSE nearest :
                              medioid \in {Head(medioidList)},
                              distance \in {calculateDistance(point,
                                                Head(medioidList))}})},
                rest \in {Tail(medioidList)}})

\* medioidList.reduce((nearest, medioid) => ..., null)
RECURSIVE NearestReduce(_, _, _)
NearestReduce(point, medioidList, nearest) ==
    IF medioidList = <<>> THEN nearest
    ELSE TheOne({NearestReduce(point, rest, next) :
                next \in {TheOne({IF nearest = Null
                                     \/ distance < calculateDistance(point, nearest)
                                  THEN medioid ELSE nearest :
                              medioid \in {Head(medioidList)},
                              distance \in {calculateDistance(point,
                                                Head(medioidList))}})},
                rest \in {Tail(medioidList)}})

findNearestMedioid(point, medioidList) ==
    IF Len(medioidList) = 0 THEN Null
    ELSE NearestReduce(point, medioidList, Null)

\* data.datasets.flatMap(d => d.data)
RECURSIVE FlatMap(_)
FlatMap(ds) == IF ds = <<>> THEN <<>> ELSE Head(ds) \o FlatMap(Tail(ds))

allPoints == FlatMap(datasets)

\* ---- the Map clusters ----
MapHas(map, k) == \E i \in 1 .. Len(map) : map[i].key = k

MapGet(map, k) ==
    LET i == CHOOSE i \in 1 .. Len(map) : map[i].key = k IN map[i].points

\* Map.set: replaces the value of an existing key in place, appends a new key
MapSet(map, k, v) ==
    IF MapHas(map, k)
    THEN [i \in 1 .. Len(map) |->
             IF map[i].key = k THEN [key |-> k, points |-> v] ELSE map[i]]
    ELSE Append(map, [key |-> k, points |-> v])

\* new Map(medioids.map(m => [m, []]))
RECURSIVE NewMap(_)
NewMap(ms) ==
    IF ms = <<>> THEN <<>>
    ELSE TheOne({MapSet(map, ms[Len(ms)], <<>>) :
                    map \in {NewMap(SubSeq(ms, 1, Len(ms) - 1))}})

\* AssignPoint with clusters.set(nearestMedioid, [point]) in place of the push
AssignPointReplacing(map, point, ms) ==
    TheOne({IF nearestMedioid # Null
            THEN MapSet(map, nearestMedioid, <<point>>)
            ELSE map :
        nearestMedioid \in {findNearestMedioid(point, ms)}})

\* the body of allPoints.forEach(point => ...) in clusterAll
AssignPoint(map, point, ms) ==
    TheOne({IF nearestMedioid # Null
            THEN TheOne({MapSet(map, nearestMedioid, pushed) :
                     pushed \in {Append(IF MapHas(map, nearestMedioid)
                                        THEN MapGet(map, nearestMedioid)
                                        ELSE <<>>, point)}})
            ELSE map :
        nearestMedioid \in {findNearestMedioid(point, ms)}})

RECURSIVE ForEachPoint(_, _, _)
ForEachPoint(map, points, ms) ==
    IF points = <<>> THEN map
    ELSE TheOne({ForEachPoint(next, rest, ms) :
                    next \in {TheOne({AssignPoint(map, point, ms) :
                                         point \in {Head(points)}})},
                    rest \in {Tail(points)}})

\* updateDatasets that leaves out the clusters of a single point
updateDatasetsDroppingSingletons(map) ==
    SelectSeq([i \in 1 .. Len(map) |-> map[i].points], LAMBDA d : Len(d) # 1)

\* updateDatasets that puts the key of the entry before its members
updateDatasetsWithKeys(map) ==
    [i \in 1 .. Len(map) |-> <<map[i].key>> \o map[i].points]

\* updateDatasets(): one dataset per Map entry, holding its member array
updateDatasets(map) == [i \in 1 .. Len(map) |-> map[i].points]

\* ClusterAllSkips without the test of !medioids.length
ClusterAllSkipsWithoutMedioidTest(ms) ==
    Len(datasets) = 0 \/ Len(allPoints) = 0

\* clusterAll() takes its early returns
ClusterAllSkips(ms) ==
    Len(datasets) = 0 \/ Len(ms) = 0 \/ Len(allPoints) = 0

\* clusters after clusterAll() run with medioids = ms
ClusterAllMap(ms) ==
    IF ClusterAllSkips(ms) THEN clusters
    ELSE TheOne({ForEachPoint(NewMap(ms), points, ms) : points \in {allPoints}})

\* clusterAll() with medioids = ms: the next clusters and data.datasets
clusterAll(ms) ==
    \E map \in {ClusterAllMap(ms)} :
        /\ clusters' = map
        /\ datasets' = IF ClusterAllSkips(ms) THEN datasets
                       ELSE updateDatasets(map)
        /\ passed' = ~ClusterAllSkips(ms)

\* ---- initializeMedioids ----
Range(s) == {s[i] : i \in 1 .. Len(s)}

\* AcceptedIndices without the test of selectedIndices.has(randomIndex)
AcceptedIndicesUnchecked(n, sel) == randomInt(0, n - 1)

\* the draws of randomIndex the while loop accepts once selectedIndices
\* holds the indices of sel
AcceptedIndices(n, sel) ==
    {randomIndex \in randomInt(0, n - 1) : randomIndex \notin Range(sel)}

\* the sequences of selected indices the while loop can end with; a rejected
\* draw changes nothing and is skipped
RECURSIVE SelectLoop(_, _, _)
SelectLoop(n, actualNumMedioids, sel) ==
    IF ~(Len(sel) < actualNumMedioids) THEN {sel}
    ELSE UNION {SelectLoop(n, actualNumMedioids, Append(sel, randomIndex)) :
                    randomIndex \in AcceptedIndices(n, sel)}

\* initializeMedioids(): lines 73-94.  The number input may have been
\* retyped since the last event: numMedioids is any k of 1 .. MaxK.
InitializeMedioidsBody ==
    /\ runs < MaxRuns
    /\ runs' = runs + 1
    /\ before' = <<>>
    /\ ret' = FALSE
    /\ stepS' = IF Len(datasets) = 0 \/ Len(allPoints) = 0 THEN stepS ELSE NoS
    /\ \E k \in 1 .. MaxK :
        /\ numMedioids' = k
        /\ IF Len(datasets) = 0
           THEN /\ alerted' = FALSE
                /\ passed' = FALSE
                /\ UNCHANGED <<datasets, medioids, clusters, run>>
           ELSE IF Len(allPoints) = 0
           THEN /\ alerted' = TRUE
                /\ passed' = FALSE
                /\ UNCHANGED <<datasets, medioids, clusters, run>>
           ELSE LET actualNumMedioids == MathMin(k, Len(allPoints)) IN
                \E sel \in SelectLoop(Len(allPoints), actualNumMedioids, <<>>) :
                \E selected \in {[i \in 1 .. Len(sel) |-> allPoints[sel[i] + 1]]} :
                    /\ alerted' = FALSE
                    /\ run' = "open"
                    /\ medioids' = selected
                    /\ clusterAll(selected)

\* ---- clusterOneIteration ----
\* SelectedCandidates taking the last element of the sorted distances
SelectedCandidatesLast(map) ==
    [i \in 1 .. Len(map) |->
        TheOne({IF Len(distances) > 0 THEN distances[Len(distances)]
                ELSE [p |-> map[i].key, td |-> 0] :
                   distances \in {calculateAllDistances(map[i].points)}})]

\* SelectedCandidates returning the key of the first entry for an entry
\* without members
SelectedCandidatesFirstKey(map) ==
    [i \in 1 .. Len(map) |->
        TheOne({IF Len(distances) > 0 THEN distances[1]
                ELSE [p |-> map[1].key, td |-> 0] :
                   distances \in {calculateAllDistances(map[i].points)}})]

\* for every entry [key, points] of the Map: distances[0] if distances is not
\* empty, else the key (ranked with total distance 0)
SelectedCandidates(map) ==
    [i \in 1 .. Len(map) |->
        TheOne({IF Len(distances) > 0 THEN distances[1]
                ELSE [p |-> map[i].key, td |-> 0] :
                   distances \in {calculateAllDistances(map[i].points)}})]

\* Array.from(clusters.entries()).map(([key, points]) => ...)
NewMedioids(map) ==
    TheOne({[i \in 1 .. Len(selected) |-> selected[i].p] :
               selected \in {SelectedCandidates(map)}})

\* hasConverged with oldMedioidStrings.has(m) in place of
\* oldMedioidStrings.has(pointToString(m)): a Point is no string
hasConvergedWithoutToString(old, new) ==
    LET oldMedioidStrings == {pointToString(old[i]) : i \in 1 .. Len(old)} IN
    /\ Len(old) = Len(new)
    /\ \A i \in 1 .. Len(new) : <<"[object Object]", new[i]>> \in oldMedioidStrings

\* hasConverged that only compares medioids.length and newMedioids.length
hasConvergedByLength(old, new) == Len(old) = Len(new)

\* lines 137-140
hasConverged(old, new) ==
    LET oldMedioidStrings == {pointToString(old[i]) : i \in 1 .. Len(old)} IN
    /\ Len(old) = Len(new)
    /\ \A i \in 1 .. Len(new) : pointToString(new[i]) \in oldMedioidStrings

\* the sum of the total distances of the candidates selected from map
RECURSIVE SumTd(_)
SumTd(selected) ==
    IF selected = <<>> THEN 0
    ELSE TheOne({Head(selected).td + SumTd(rest) : rest \in {Tail(selected)}})

SumSelected(map) == SumTd(SelectedCandidates(map))

\* clusterOneIteration() returns false when it has computed newMedioids
StepReturnsFalse(newMedioids) ==
    \/ Len(newMedioids) = 0
    \/ hasConverged(medioids, newMedioids)

\* StepMedioids with medioids = newMedioids moved before the convergence test
StepMedioidsCommittedEarly(newMedioids) ==
    IF Len(newMedioids) = 0 THEN medioids ELSE newMedioids

\* medioids when clusterOneIteration() returns, having computed newMedioids
StepMedioids(newMedioids) ==
    IF StepReturnsFalse(newMedioids) THEN medioids ELSE newMedioids

\* StepClusterMedioids with clusterAll() called before medioids = newMedioids
StepClusterMedioidsBeforeCommit(newMedioids) == medioids

\* the medioids that the clusterAll() of line 145 reads: line 144 has
\* assigned them
StepClusterMedioids(newMedioids) == StepMedioids(newMedioids)

\* StepReclusters with clusterAll() called before the return of line 142
StepReclustersBeforeReturn(newMedioids) == Len(newMedioids) # 0

\* clusterOneIteration() gets to its call of clusterAll(), having computed
\* newMedioids
StepReclusters(newMedioids) == ~StepReturnsFalse(newMedioids)

\* clusterOneIteration(): lines 126-147
ClusterOneIterationBody ==
    /\ before' = medioids
    /\ alerted' = FALSE
    /\ IF Len(medioids) = 0
       THEN /\ ret' = FALSE
            /\ passed' = FALSE
            /\ UNCHANGED <<datasets, medioids, clusters, stepS>>
       ELSE \E newMedioids \in {NewMedioids(clusters)} :
            /\ stepS' = <<SumSelected(clusters)>>
            /\ ret' = ~StepReturnsFalse(newMedioids)
            /\ medioids' = StepMedioids(newMedioids)
            /\ IF StepReclusters(newMedioids)
               THEN clusterAll(StepClusterMedioids(newMedioids))
               ELSE /\ passed' = FALSE
                    /\ UNCHANGED <<datasets, clusters>>

\* ---- operations ----
\* generateDatasetWithRandomSize(): the center followed by size points
\* within clusterSpread of it
GeneratedDatasets ==
    UNION {
      { <<center>> \o rest :
          rest \in [1 .. size ->
                      {<<center[1] + dx, center[2] + dy>> :
                          dx \in randomInt(-ClusterSpread, ClusterSpread),
                          dy \in randomInt(-ClusterSpread, ClusterSpread)}] } :
        size \in randomInt(1, MaxDatasetSize),
        center \in {<<x, y>> : x \in randomInt(MinX, MaxX), y \in randomInt(MinY, MaxY)} }

\* click on "Add Random Dataset"
AddRandomDataset ==
    /\ pc = "idle"
    /\ \E dataset \in GeneratedDatasets :
          /\ Len(coords) + Len(dataset) <= MaxPoints
          /\ coords' = coords \o dataset
          /\ datasets' = Append(datasets,
                 [i \in 1 .. Len(dataset) |-> Len(coords) + i])
    /\ lastOp' = "add"
    /\ ret' = FALSE
    /\ alerted' = FALSE
    /\ passed' = FALSE
    /\ stepS' = NoS
    /\ before' = <<>>
    /\ run' = IF run = "none" THEN "none" ELSE "stale"
    /\ UNCHANGED <<medioids, clusters, numMedioids, runs, pc>>

\* a call of initializeMedioids().  The click handler of "Run Clustering" is
\* this step followed by the steps of clusterTillEnd().
InitializeMedioids ==
    /\ pc = "idle"
    /\ InitializeMedioidsBody
    /\ lastOp' = "seed"
    /\ UNCHANGED <<coords, pc>>

\* a call of clusterOneIteration() alone
ClusterOneIteration ==
    /\ pc = "idle"
    /\ ClusterOneIterationBody
    /\ lastOp' = "step"
    /\ UNCHANGED <<coords, numMedioids, runs, run, pc>>

\* a call of clusterAll() alone
ClusterAll ==
    /\ pc = "idle"
    /\ clusterAll(medioids)
    /\ lastOp' = "assign"
    /\ ret' = FALSE
    /\ alerted' = FALSE
    /\ stepS' = NoS
    /\ before' = <<>>
    /\ UNCHANGED <<coords, medioids, numMedioids, runs, run, pc>>

\* a call of clusterTillEnd() enters the while loop
ClusterTillEnd ==
    /\ pc = "idle"
    /\ pc' = "loop"
    /\ UNCHANGED <<coords, datasets, medioids, clusters, numMedioids, runs, run,
                   lastOp, ret, alerted, passed, stepS, before>>

\* one evaluation of the while condition of clusterTillEnd()
LoopIteration ==
    /\ pc = "loop"
    /\ ClusterOneIterationBody
    /\ lastOp' = "step"
    /\ pc' = IF ret' THEN "loop" ELSE "idle"
    /\ UNCHANGED <<coords, numMedioids, runs, run>>

Init ==
    /\ coords = <<>>
    /\ datasets = <<>>
    /\ medioids = <<>>
    /\ clusters = <<>>
    /\ numMedioids = 3
    /\ runs = 0
    /\ run = "none"
    /\ pc = "idle"
    /\ lastOp = "none"
    /\ ret = FALSE
    /\ alerted = FALSE
    /\ passed = FALSE
    /\ stepS = NoS
    /\ before = <<>>

Next ==
    \/ AddRandomDataset
    \/ InitializeMedioids
    \/ ClusterOneIteration
    \/ ClusterAll
    \/ ClusterTillEnd
    \/ LoopIteration

Spec == Init /\ [][Next]_vars

\* the while loop of clusterTillEnd() is synchronous code: once entered it
\* goes on to its next iteration
LiveSpec == Spec /\ WF_vars(LoopIteration)

\* ---- helpers of the properties ----
\* a call of clusterOneIteration(), alone or from the loop of clusterTillEnd()
IsStep == ClusterOneIteration \/ LoopIteration

\* number of occurrences of p in the sequence points
RECURSIVE Count(_, _)
Count(p, points) ==
    IF points = <<>> THEN 0
    ELSE (IF Head(points) = p THEN 1 ELSE 0) + Count(p, Tail(points))

\* the member lists of a Map, one after the other
Members(map) == FlatMap([i \in 1 .. Len(map) |-> map[i].points])

Coord(p) == coords[p]

CoordSet(points) == {Coord(points[i]) : i \in 1 .. Len(points)}

SameCoordsInPool ==
    \E i, j \in 1 .. Len(coords) : i # j /\ coords[i] = coords[j]

\* C1: an assignment pass that is not a no-op puts every point of the pool it
\* read into exactly one member list, exactly once, and no other point
PartitionInvariant ==
    [][passed' =>
         /\ \A p \in Range(allPoints) : Count(p, Members(clusters')) = 1
         /\ Range(Members(clusters')) \subseteq Range(allPoints)]_vars

\* C1 witness: a step that reported a change has reassigned a pool holding two
\* points at the same coordinates into several clusters
PartitionWitness ==
    /\ passed /\ lastOp = "step" /\ ret
    /\ SameCoordsInPool
    /\ Len(clusters) >= 2

\* C2: once entered, the loop of clusterTillEnd() is left: some iteration of
\* clusterOneIteration() returns false
Termination == (pc = "loop") ~> (pc = "idle")

\* C2 witness: the loop is running and an iteration has changed the medioids
TerminationWitness ==
    /\ pc = "loop" /\ lastOp = "step" /\ ret
    /\ Len(medioids) >= 2

\* C3: within a run the sum of the selected candidates' total distances does
\* not grow from one clusterOneIteration to the next
MonotonicNonWorsening ==
    [][(IsStep /\ run = "open" /\ stepS # NoS) => stepS'[1] <= stepS[1]]_vars

\* C3 witness: a step of a run selected candidates of sum S and changed the
\* medioids, and the next step will select candidates of a smaller sum
MonotonicWitness ==
    /\ run = "open" /\ lastOp = "step" /\ ret
    /\ stepS # NoS
    /\ SumSelected(clusters) < stepS[1]

\* C4: in a run the Medoid Set has min(k, |pool|) elements
MedoidCount ==
    run = "open" => Len(medioids) = MathMin(numMedioids, Len(allPoints))

\* C5: no two medioids have equal coordinates
MedoidDistinctness ==
    \A i, j \in 1 .. Len(medioids) :
        i # j => Coord(medioids[i]) # Coord(medioids[j])

\* C6: clusterOneIteration() on a non-empty Medoid Set returns true exactly
\* when the coordinate sets of the old medioids and the candidates differ
ConvergenceIsSetEquality ==
    [][(IsStep /\ Len(medioids) > 0) =>
         (ret' <=> CoordSet(medioids) # CoordSet(NewMedioids(clusters)))]_vars

\* C7: initializeMedioids() on an empty pool raises the notice and changes
\* neither the medioids nor the clusters nor the pool
EmptyPoolNotice ==
    [][(InitializeMedioids /\ Len(allPoints) = 0) =>
         (alerted' /\ UNCHANGED <<medioids, clusters, datasets>>)]_vars

\* C8: every medioid is a point of the pool
MedoidMembership ==
    \A i \in 1 .. Len(medioids) :
        /\ medioids[i] \in Range(allPoints)
        /\ Coord(medioids[i]) \in CoordSet(allPoints)

\* C8 witness: a step has replaced the medioids and one of the new medioids
\* was not a medioid before
MembershipWitness ==
    /\ lastOp = "step" /\ ret
    /\ Len(medioids) >= 2
    /\ \E i \in 1 .. Len(medioids) : medioids[i] \notin Range(before)

\* C9: a clusterOneIteration() right after one that returned false returns
\* false too and leaves the medioids as they were before the first of the two
IdempotenceAtFixedPoint ==
    [][(IsStep /\ lastOp = "step" /\ ~ret) =>
         (~ret' /\ medioids' = before)]_vars

\* C9 witness: a step has returned false although its candidates are not the
\* medioids themselves, and the next call starts from here
IdempotenceWitness ==
    /\ lastOp = "step" /\ ~ret
    /\ Len(medioids) >= 2
    /\ NewMedioids(clusters) # medioids

\* C10: seeding selects min(k, |pool|) pool points, none of them twice, and
\* all of them when k exceeds the size of the pool
SeedingDistinct ==
    (lastOp = "seed" /\ passed) =>
        /\ Len(medioids) = MathMin(numMedioids, Len(allPoints))
        /\ \A i, j \in 1 .. Len(medioids) : i # j => medioids[i] # medioids[j]
        /\ Range(medioids) \subseteq Range(allPoints)
        /\ (numMedioids > Len(allPoints) =>
              \A p \in Range(allPoints) : Count(p, medioids) = 1)

\* C10 witness: a seeding with k larger than the pool
SeedingWitness ==
    /\ lastOp = "seed" /\ passed
    /\ numMedioids > Len(allPoints)

\* C11: clusterAll() and clusterOneIteration() called with an empty pool or
\* with no medioids change neither the medioids nor the clusters nor the
\* pool, and clusterOneIteration() returns false
AssignmentNoOp ==
    [][((ClusterAll \/ IsStep) /\ (Len(allPoints) = 0 \/ Len(medioids) = 0)) =>
         /\ UNCHANGED <<medioids, clusters, datasets, coords>>
         /\ ~passed'
         /\ ~ret']_vars

\* C11 witness: clusterAll() has been called on a pool that holds points
\* while there was no medioid
AssignmentNoOpWitness ==
    /\ lastOp = "assign"
    /\ Len(medioids) = 0
    /\ Len(allPoints) > 0

\* medioids[i] is at the least distance from p, and no earlier medioid is
FirstNearest(p, i) ==
    /\ \A j \in 1 .. Len(medioids) :
          calculateDistance(p, medioids[i]) <= calculateDistance(p, medioids[j])
    /\ \A j \in 1 .. (i - 1) :
          calculateDistance(p, medioids[i]) < calculateDistance(p, medioids[j])

\* the member lists of the entries of map with key k
MembersOf(map, k) ==
    UNION {Range(map[e].points) : e \in {e \in 1 .. Len(map) : map[e].key = k}}

\* C12: after a clusterAll pass every pool point is a member of the cluster
\* of the first of the medioids at the least Manhattan distance from it
NearestAssignment ==
    passed =>
        \A p \in Range(allPoints) :
            \E i \in 1 .. Len(medioids) :
                /\ FirstNearest(p, i)
                /\ p \in MembersOf(clusters, medioids[i])

\* C12 witness: a pass has assigned a point that is no medioid and has two
\* different medioids at the least distance from it
NearestAssignmentWitness ==
    /\ passed
    /\ \E p \in Range(allPoints) :
          /\ p \notin Range(medioids)
          /\ \E i, j \in 1 .. Len(medioids) :
                /\ i < j
                /\ medioids[i] # medioids[j]
                /\ FirstNearest(p, i)
                /\ calculateDistance(p, medioids[i]) = calculateDistance(p, medioids[j])

\* the sum of the Manhattan distances from p to points[1 .. n]
RECURSIVE SumDist(_, _, _)
SumDist(p, points, n) ==
    IF n = 0 THEN 0
    ELSE calculateDistance(p, points[n]) + SumDist(p, points, n - 1)

\* points[i] has the least sum of distances to the members of points, and no
\* earlier member has it
FirstLeastMember(points, i) ==
    /\ \A j \in 1 .. Len(points) :
          SumDist(points[i], points, Len(points))
              <= SumDist(points[j], points, Len(points))
    /\ \A j \in 1 .. (i - 1) :
          SumDist(points[i], points, Len(points))
              < SumDist(points[j], points, Len(points))

\* C13: the candidate clusterOneIteration() selects for a cluster with
\* members is the first member of least total distance to the members, and
\* a step that returns true makes the candidates the medioids
MedoidUpdateRule ==
    [][(IsStep /\ Len(medioids) > 0) =>
         /\ \A e \in 1 .. Len(clusters) :
               clusters[e].points # <<>> =>
                   \E i \in 1 .. Len(clusters[e].points) :
                       /\ FirstLeastMember(clusters[e].points, i)
                       /\ NewMedioids(clusters)[e] = clusters[e].points[i]
         /\ (ret' => medioids' = NewMedioids(clusters))]_vars

\* C13 witness: a step has changed the medioids, and in a cluster of three or
\* more members two members tie at the least total distance; the next step
\* selects the first of them
MedoidUpdateWitness ==
    /\ lastOp = "step" /\ ret
    /\ \E e \in 1 .. Len(clusters) :
          /\ Len(clusters[e].points) >= 3
          /\ \E i, j \in 1 .. Len(clusters[e].points) :
                /\ i < j
                /\ FirstLeastMember(clusters[e].points, i)
                /\ SumDist(clusters[e].points[i], clusters[e].points,
                           Len(clusters[e].points))
                     = SumDist(clusters[e].points[j], clusters[e].points,
                               Len(clusters[e].points))
                /\ NewMedioids(clusters)[e] = clusters[e].points[i]

\* C14: a clusterOneIteration() that returns false leaves the medioids, the
\* clusters and the pool as they were; clusterAll() is not run
ConvergedStepChangesNothing ==
    [][(IsStep /\ ~ret') =>
         (UNCHANGED <<medioids, clusters, datasets, coords>> /\ ~passed')]_vars

\* C14 witness: a step has returned false in a state where clusterAll() run
\* with the candidates would have changed the clusters
ConvergedStepWitness ==
    /\ lastOp = "step" /\ ~ret
    /\ Len(medioids) >= 2
    /\ ClusterAllMap(NewMedioids(clusters)) # clusters

\* the keys of a Map in insertion order
Keys(map) == [e \in 1 .. Len(map) |-> map[e].key]

\* C15: after a clusterAll pass the clusters have one entry per element of
\* the medioids, in the order of the medioids
OneEntryPerMedoid ==
    passed => (Len(clusters) = Len(medioids) /\ Keys(clusters) = medioids)

EmptyClusterKeepsMedoid ==
    [][(IsStep /\ Len(medioids) > 0) =>
         \A e \in 1 .. Len(clusters) :
             clusters[e].points = <<>> =>
                 /\ NewMedioids(clusters)[e] = clusters[e].key
                 /\ ret' => (/\ medioids'[e] = clusters[e].key
                             /\ MapHas(clusters', clusters[e].key))]_vars

\* C17 witness: a step of a run has returned true; before it a medioid had
\* an earlier medioid at its coordinates, hence an entry without members, and
\* it is still in its slot
EmptyClusterWitness ==
    /\ run = "open" /\ lastOp = "step" /\ ret
    /\ Len(medioids) >= 3
    /\ \E e \in 1 .. Len(before) :
          /\ e <= Len(medioids)
          /\ medioids[e] = before[e]
          /\ \E f \in 1 .. (e - 1) : Coord(before[f]) = Coord(before[e])

\* the medioid of every entry with members is at the coordinates of a member
\* of least total distance to the members, and every pool point is a member
\* of the entry of its first nearest medioid and of no other entry
FixedPoint ==
    /\ \A e \in 1 .. Len(clusters) :
          clusters[e].points # <<>> =>
              \E i \in 1 .. Len(clusters[e].points) :
                  /\ Coord(clusters[e].points[i]) = Coord(clusters[e].key)
                  /\ \A j \in 1 .. Len(clusters[e].points) :
                        SumDist(clusters[e].points[i], clusters[e].points,
                                Len(clusters[e].points))
                          <= SumDist(clusters[e].points[j], clusters[e].points,
                                     Len(clusters[e].points))
    /\ \A p \in Range(allPoints) :
          /\ Count(p, Members(clusters)) = 1
          /\ \E i \in 1 .. Len(medioids) :
                /\ FirstNearest(p, i)
                /\ p \in MembersOf(clusters, medioids[i])
    /\ Keys(clusters) = medioids

\* C18: when the loop of clusterTillEnd() ends in a run, the state is a fixed
\* point of the medioid update
FixedPointOnTermination ==
    [][(LoopIteration /\ run = "open" /\ ~ret') => FixedPoint']_vars

\* C18 witness: the loop has ended in a run with several clusters, one of
\* them with two or more members, after a step that had changed the medioids
FixedPointWitness ==
    /\ run = "open" /\ pc = "idle" /\ lastOp = "step" /\ ~ret
    /\ Len(clusters) >= 2
    /\ \E e \in 1 .. Len(clusters) : Len(clusters[e].points) >= 2
    /\ stepS # NoS
    /\ NewMedioids(clusters) # medioids

\* C19: every Point object ever created is in the pool exactly once and keeps
\* its coordinates; only AddRandomDataset creates points, and it appends them
\* to the pool; the other operations keep the number of occurrences of every
\* point in the pool
PoolConservation ==
    [][/\ \A p \in 1 .. Len(coords) :
             p <= Len(coords') /\ coords'[p] = coords[p]
       /\ \A p \in 1 .. Len(coords') : Count(p, allPoints') = 1
       /\ Len(allPoints') = Len(coords')
       /\ IF AddRandomDataset
          THEN /\ Len(coords') > Len(coords)
               /\ allPoints' = allPoints \o
                      [i \in 1 .. (Len(coords') - Len(coords)) |-> Len(coords) + i]
          ELSE /\ coords' = coords
               /\ \A p \in 1 .. Len(coords) :
                     Count(p, allPoints') = Count(p, allPoints)]_vars

\* C19 witness: a step has returned true and the pool of four points is no
\* longer in the order in which the points were created
PoolConservationWitness ==
    /\ lastOp = "step" /\ ret
    /\ Len(allPoints) >= 4
    /\ Len(datasets) >= 2
    /\ \E i \in 1 .. Len(allPoints) : allPoints[i] # i
====
